---- MODULE Spec2Model ----
(***************************************************************************)
(* The crawl engine of web-crawler2md-app: the submission route            *)
(* (POST /api/crawl-jobs), the job store (MemStorage), the job run         *)
(* (CrawlerService.crawlWebsite) and URL discovery                         *)
(* (CrawlerService.discoverUrls).                                          *)
(*                                                                         *)
(* A URL is a sequence of characters, so that String.startsWith and        *)
(* RegExp.test are computed on the characters.  One action is one run of   *)
(* JavaScript between two awaits (a continuation of the async function):   *)
(* other jobs' continuations interleave exactly at these points.           *)
(***************************************************************************)
EXTENDS Integers, Sequences, FiniteSets, TLC

\* ------------------------------------------------------------------ bounds
\* Number of submissions over a behaviour, stored or rejected.
MaxJobs == 1
\* Number of jobs submitted to one process where the store is studied with
\* jobs running side by side.
MaxStoreJobs == 2
\* Number of times the server process is started again.
MaxRestarts == 1
\* A submitted job's maxDepth is drawn from 1..MaxDepthChoice.
MaxDepthChoice == 3
\* A submitted job's maxConcurrent is drawn from 1..MaxConcurrentChoice.
MaxConcurrentChoice == 2

\* ------------------------------------------------------------------ the web
\* The value of a nullable column that holds nothing.
Null == "null"

Range(s) == {s[k] : k \in 1..Len(s)}

\* The base URLs a job is submitted with.
BaseUrls == {<<"h">>}

\* The pattern rule lists a job is submitted with. "(" does not compile.
PatternChoices == {<< <<"b">> >>, << <<"h">> >>, << <<"x">>, <<"a","b">> >>, << <<"(">> >>}

\* The absolute URLs of the a[href] elements of the page at url, in document
\* order: new URL(href, url).href for each. The site has a link back to the
\* seed, repeated links, an off-site link and a cycle.
PageLinks(url) ==
    CASE url = <<"h">> -> << <<"h","a">>, <<"h","a">>, <<"h","b">>, <<"x">>, <<"h">> >>
      [] url = <<"h","a">> -> << <<"h","a","b">>, <<"h">>, <<"h","b">> >>
      [] url = <<"h","b">> -> << <<"h","a","b">>, <<"h","c">> >>
      [] url = <<"h","a","b">> -> << <<"h">>, <<"h","a">> >>
      [] OTHER -> <<>>

\* The title extractContent finds for the page at url: the text of its title
\* element, of its first h1, or 'Untitled', never the empty string.
PageTitle(url) == <<"P", " ">> \o url

\* The markdown turndown gives for the main content of the page at url. The
\* page at hb has no content left once navigation, scripts and images are
\* removed: mainContent.html() || '' is '' and so is its markdown.
PageMarkdown(url) == IF url = <<"h", "b">> THEN "" ELSE "markdown"

\* A prefix test that every string passes: the mutant of StartsWith.
StartsWithAnything(s, p) == TRUE

\* String.prototype.startsWith
StartsWith(s, p) == Len(p) <= Len(s) /\ SubSeq(s, 1, Len(p)) = p

\* A RegExp constructor that takes any pattern: the mutant of Compiles.
CompilesAnything(pattern) == TRUE

\* new RegExp(pattern) throws a SyntaxError on an unbalanced parenthesis.
Compiles(pattern) == "(" \notin Range(pattern)

\* RegExp.prototype.test with an anchored match: the mutant of RegExpTest.
RegExpTestAnchored(pattern, url) == pattern = url

\* RegExp.prototype.test of a pattern without metacharacters and without
\* flags: the pattern occurs somewhere in the string.
RegExpTest(pattern, url) ==
    \E k \in 0..(Len(url) - Len(pattern)) : SubSeq(url, k + 1, k + Len(pattern)) = pattern

\* regexPatterns.some(pattern => pattern.test(url))
Matches(patterns, url) == \E k \in 1..Len(patterns) : RegExpTest(patterns[k], url)

\* ------------------------------------------------------------------ state
VARIABLES
    crawlJobs,       \* MemStorage.crawlJobs: job id -> CrawlJob (a sequence: id = index)
    crawlResults,    \* MemStorage.crawlResults: result id -> CrawlResult
    currentJobId,    \* MemStorage.currentJobId
    currentResultId, \* MemStorage.currentResultId
    pc,              \* per job id: where its crawlWebsite call stands
    browser,         \* per job id: the puppeteer browser of the run
    visited,         \* discoverUrls: the visited set
    toVisit,         \* discoverUrls: the toVisit array
    discovered,      \* discoverUrls: the discovered set, in insertion order
    currentDepth,    \* discoverUrls: currentDepth
    currentBatch,    \* discoverUrls: currentBatch of the wave in flight
    promises,        \* discoverUrls: the promises of the wave in flight
    idx,             \* crawlWebsite: the loop index i
    gotoLog,         \* per job id: the URLs discovery navigated to, in dispatch order
    linkSources,     \* per job id: the URLs whose discovery fetch returned its links
    settled,         \* per job id: the URLs whose discovery fetch returned or failed
    events,          \* per job id: the fetches dispatched, delays slept and results stored
    openPages,       \* per job id: the pages of the browser opened and not closed
    rejected,        \* the submissions answered with 400
    persisted,       \* storage-data.json: the last snapshot written, or a torn file
    diskFaults,      \* the writes of storage-data.json that may still fail
    response,        \* per job, the body of the answer to its submission, once sent
    issued,          \* the job ids and result ids the store handed out, in order
    restarts,        \* the times the server process was started again
    archive,         \* the answer of the last download request
    document,        \* extractContent: the elements of the cleaned page under study
    mainContent,     \* extractContent: the positions selected, in call order
    name,            \* sanitizeFileName: the argument of the call under study
    fileName         \* sanitizeFileName: the values returned, in call order

vars == <<crawlJobs, crawlResults, currentJobId, currentResultId, pc, browser,
          visited, toVisit, discovered, currentDepth, currentBatch, promises,
          idx, gotoLog, linkSources, settled, events, openPages, rejected,
          persisted, diskFaults, issued, restarts, response, archive, document,
          mainContent,
          name, fileName>>

discoveryVars == <<visited, toVisit, discovered, currentDepth, currentBatch,
                   promises, gotoLog, linkSources, settled>>

\* What the pages of a run leave behind, and the answers of the route.
traceVars == <<events, openPages, rejected>>

\* What the download route and its file naming work on: no step of a job run
\* touches it.
fileVars == <<response, archive, document, mainContent, name, fileName>>

storeVars == <<persisted, diskFaults>>

idVars == <<issued, restarts>>

JobIds == 1..(IF MaxJobs > MaxStoreJobs THEN MaxJobs ELSE MaxStoreJobs)

\* ------------------------------------------------------------------ MemStorage
\* A lost merge: the fields not named in updates fall back to the values
\* createCrawlJob gives them. The mutant of MergeJob.
MergeJobLost(job, updates) ==
    [f \in DOMAIN job |->
        IF f \in DOMAIN updates THEN updates[f]
        ELSE IF f = "status" THEN "pending"
        ELSE IF f \in {"totalPages", "processedPages"} THEN 0
        ELSE job[f]]

\* { ...job, ...updates }
MergeJob(job, updates) ==
    [f \in DOMAIN job |-> IF f \in DOMAIN updates THEN updates[f] ELSE job[f]]

\* An updateCrawlJob that keeps the old job while the disk may fail: the mutant
\* of updateCrawlJob.
updateCrawlJobRolledBack(id, updates) ==
    IF id \in 1..Len(crawlJobs) /\ diskFaults = 0
    THEN [crawlJobs EXCEPT ![id] = MergeJob(crawlJobs[id], updates)]
    ELSE crawlJobs

\* An updateCrawlJob that merges the updates into every job of the map: a
\* mutant of updateCrawlJob.
updateCrawlJobShared(id, updates) ==
    [i \in 1..Len(crawlJobs) |-> MergeJob(crawlJobs[i], updates)]

\* MemStorage.updateCrawlJob: the crawlJobs map after the call.
updateCrawlJob(id, updates) ==
    IF id \in 1..Len(crawlJobs)
    THEN [crawlJobs EXCEPT ![id] = MergeJob(crawlJobs[id], updates)]
    ELSE crawlJobs

\* A createCrawlResult that stores under the id of the result before: the
\* mutant of createCrawlResult.
createCrawlResultOverwriting(insertResult) ==
    IF crawlResults = <<>>
    THEN <<[id |-> currentResultId] @@ insertResult>>
    ELSE [crawlResults EXCEPT ![Len(crawlResults)] = [id |-> currentResultId] @@ insertResult]

\* MemStorage.createCrawlResult: the crawlResults map after the call.
createCrawlResult(insertResult) ==
    Append(crawlResults, [id |-> currentResultId] @@ insertResult)

\* MemStorage.getCrawlResults, as a set of result ids.
getCrawlResults(jobId) ==
    {r \in 1..Len(crawlResults) : crawlResults[r].jobId = jobId}

\* The data saveData serialises: the maps and the id counters.
Snapshot(jobs, results, jobId, resultId) ==
    [torn |-> FALSE, crawlJobs |-> jobs, crawlResults |-> results,
     currentJobId |-> jobId, currentResultId |-> resultId]

\* A saveData that writes the results map as the file had it: the mutant of
\* saveData.
saveDataJobsOnly ==
    \E failed \in (IF diskFaults > 0 THEN BOOLEAN ELSE {FALSE}) :
        /\ diskFaults' = (IF failed THEN diskFaults - 1 ELSE diskFaults)
        /\ IF failed
           THEN \E torn \in BOOLEAN : persisted' = [persisted EXCEPT !.torn = torn]
           ELSE persisted' = Snapshot(crawlJobs', persisted.crawlResults,
                                      currentJobId', currentResultId')

\* MemStorage.saveData at the end of a store call: writeFileSync replaces the
\* file by the JSON of the maps and counters as the call leaves them. When it
\* throws, the error is logged and dropped; the file is as it was (the open
\* failed) or torn (the write stopped part-way).
saveData ==
    \E failed \in (IF diskFaults > 0 THEN BOOLEAN ELSE {FALSE}) :
        /\ diskFaults' = (IF failed THEN diskFaults - 1 ELSE diskFaults)
        /\ IF failed
           THEN \E torn \in BOOLEAN : persisted' = [persisted EXCEPT !.torn = torn]
           ELSE persisted' = Snapshot(crawlJobs', crawlResults',
                                      currentJobId', currentResultId')

\* The store as its constructor leaves it with no data file, and no run, after
\* n submissions were answered 400.
StoreInit(n) ==
    /\ crawlJobs = <<>>
    /\ crawlResults = <<>>
    /\ currentJobId = 1
    /\ currentResultId = 1
    /\ pc = [j \in JobIds |-> "none"]
    /\ browser = [j \in JobIds |-> "none"]
    /\ visited = [j \in JobIds |-> {}]
    /\ toVisit = [j \in JobIds |-> <<>>]
    /\ discovered = [j \in JobIds |-> <<>>]
    /\ currentDepth = [j \in JobIds |-> 0]
    /\ currentBatch = [j \in JobIds |-> <<>>]
    /\ promises = [j \in JobIds |-> <<>>]
    /\ idx = [j \in JobIds |-> 0]
    /\ gotoLog = [j \in JobIds |-> <<>>]
    /\ linkSources = [j \in JobIds |-> {}]
    /\ settled = [j \in JobIds |-> {}]
    /\ events = [j \in JobIds |-> <<>>]
    /\ openPages = [j \in JobIds |-> 0]
    /\ rejected = n
    /\ persisted = Snapshot(<<>>, <<>>, 1, 1)
    /\ response = [j \in JobIds |-> <<>>]
    /\ issued = [jobs |-> <<>>, results |-> <<>>]
    /\ restarts = 0

CrawlerInit == StoreInit(0)

\* No download was requested.
NoArchive == [status |-> 0, jobId |-> 0, found |-> 0, entries |-> <<>>]

Init ==
    /\ CrawlerInit
    /\ diskFaults = 0
    /\ archive = NoArchive
    /\ document = <<>>
    /\ mainContent = <<>>
    /\ name = <<>>
    /\ fileName = <<>>

\* The job configurations a submission is drawn from. The first submission
\* takes any of them; a later one, which runs beside the first, takes the
\* smallest crawl.
Configs(id) ==
    IF id = 1
    THEN [baseUrl : BaseUrls, regexPatterns : PatternChoices,
          maxDepth : 1..MaxDepthChoice, requestDelay : {100},
          maxConcurrent : 1..MaxConcurrentChoice]
    ELSE {[baseUrl |-> <<"h">>, regexPatterns |-> << <<"b">> >>,
           maxDepth |-> 1, requestDelay |-> 100, maxConcurrent |-> 1]}

\* Request bodies of the right types with every number outside the range the
\* form allows, and with no pattern or an empty one.
UnboundedBodies ==
    {[baseUrl |-> <<"h">>, regexPatterns |-> <<>>,
      maxDepth |-> 0, requestDelay |-> 0, maxConcurrent |-> 6],
     [baseUrl |-> <<"h">>, regexPatterns |-> << <<>> >>,
      maxDepth |-> 11, requestDelay |-> 5001, maxConcurrent |-> 0]}

\* Request bodies without a required field.
MalformedBodies ==
    {[regexPatterns |-> << <<"b">> >>, maxDepth |-> 1, requestDelay |-> 100,
      maxConcurrent |-> 1],
     [baseUrl |-> <<"h">>, maxDepth |-> 1, requestDelay |-> 100, maxConcurrent |-> 1]}

\* The bodies a POST /api/crawl-jobs request is drawn from.
Bodies(id) ==
    Configs(id) \cup (IF id = 1 THEN UnboundedBodies \cup MalformedBodies ELSE {})

\* insertCrawlJobSchema.parse(req.body) returns: the schema drizzle-zod derives
\* from the table requires the columns that are notNull and have no default,
\* and checks types only.
insertCrawlJobSchema(body) == {"baseUrl", "regexPatterns"} \subseteq DOMAIN body

\* crawlJobSchema of the client's form: what the form submits.
crawlJobSchema(body) ==
    /\ {"baseUrl", "regexPatterns", "maxDepth", "requestDelay", "maxConcurrent"}
            \subseteq DOMAIN body
    /\ Len(body.regexPatterns) >= 1
    /\ body.maxDepth \in 1..10
    /\ body.requestDelay \in 100..5000
    /\ body.maxConcurrent \in 1..5

\* MemStorage.createCrawlJob: the CrawlJob it stores.
NewCrawlJob(insertJob) ==
    [id |-> currentJobId, status |-> "pending", totalPages |-> 0, processedPages |-> 0]
        @@ insertJob

\* POST /api/crawl-jobs up to the end of storage.createCrawlJob, for a body
\* that parses.
Submit(insertJob) ==
    /\ insertCrawlJobSchema(insertJob)
    /\ crawlJobs' = Append(crawlJobs, NewCrawlJob(insertJob))
    /\ currentJobId' = currentJobId + 1
    /\ pc' = [pc EXCEPT ![currentJobId] = "created"]
    /\ UNCHANGED <<crawlResults, currentResultId, browser, idx>>
    /\ UNCHANGED discoveryVars
    /\ UNCHANGED traceVars
    /\ UNCHANGED fileVars
    /\ saveData
    /\ issued' = [issued EXCEPT !.jobs = Append(@, crawlJobs'[Len(crawlJobs')].id)]
    /\ UNCHANGED restarts

\* A submission that is stored, one of the MaxJobs submissions of a behaviour.
CreateJob(insertJob) ==
    /\ currentJobId + rejected <= MaxJobs
    /\ Submit(insertJob)

\* POST /api/crawl-jobs when parse throws a ZodError: the answer is 400 and
\* nothing is stored or started.
RejectJob(body) ==
    /\ currentJobId + rejected <= MaxJobs
    /\ ~insertCrawlJobSchema(body)
    /\ rejected' = rejected + 1
    /\ UNCHANGED <<crawlJobs, crawlResults, currentJobId, currentResultId, pc, browser, idx,
                   events, openPages>>
    /\ UNCHANGED discoveryVars
    /\ UNCHANGED fileVars
    /\ UNCHANGED storeVars
    /\ UNCHANGED idVars

\* A response built after the first update of the run: the mutant of
\* SubmissionResponse.
SubmissionResponseLate(j) == MergeJob(crawlJobs[j], [status |-> "running"])

\* res.json(job): the job createCrawlJob returned, serialised as it is when the
\* route sends it.
SubmissionResponse(j) == crawlJobs[j]

\* POST /api/crawl-jobs after createCrawlJob: crawlWebsite(job.id) is called and
\* runs to its first await, the promise is left with a catch handler, and the
\* response is sent.
StartCrawl(j) ==
    /\ pc[j] = "created"
    /\ j \in 1..Len(crawlJobs)
    /\ pc' = [pc EXCEPT ![j] = "start"]
    /\ response' = [response EXCEPT ![j] = <<SubmissionResponse(j)>>]
    /\ UNCHANGED <<crawlJobs, crawlResults, currentJobId, currentResultId, browser, idx>>
    /\ UNCHANGED discoveryVars
    /\ UNCHANGED traceVars
    /\ UNCHANGED <<archive, document, mainContent, name, fileName>>
    /\ UNCHANGED storeVars
    /\ UNCHANGED idVars

\* The first update with the status left as it was: the mutant of RunningUpdates.
RunningUpdatesPending == [status |-> "pending"]

\* { status: 'running' }
RunningUpdates == [status |-> "running"]

\* crawlWebsite: updateCrawlJob(jobId, {status: 'running'}), then puppeteer.launch.
SetRunning(j) ==
    /\ pc[j] = "start"
    /\ crawlJobs' = updateCrawlJob(j, RunningUpdates)
    /\ pc' = [pc EXCEPT ![j] = "launch"]
    /\ UNCHANGED <<crawlResults, currentJobId, currentResultId, browser, idx>>
    /\ UNCHANGED discoveryVars
    /\ UNCHANGED traceVars
    /\ UNCHANGED fileVars
    /\ saveData
    /\ UNCHANGED idVars

\* The catch block writing the counter alone: a mutant of CatchUpdates.
CatchUpdatesNoStatus == [processedPages |-> 0]

\* The catch block resetting both counters: a mutant of CatchUpdates.
CatchUpdatesBothCounters == [status |-> "error", processedPages |-> 0, totalPages |-> 0]

\* crawlWebsite's catch block: { status: 'error', processedPages: 0 }
CatchUpdates == [status |-> "error", processedPages |-> 0]

\* puppeteer.launch resolves.
LaunchOk(j) ==
    /\ pc[j] = "launch"
    /\ browser' = [browser EXCEPT ![j] = "open"]
    /\ pc' = [pc EXCEPT ![j] = "discoverUrls"]
    /\ UNCHANGED <<crawlJobs, crawlResults, currentJobId, currentResultId, idx>>
    /\ UNCHANGED discoveryVars
    /\ UNCHANGED traceVars
    /\ UNCHANGED fileVars
    /\ UNCHANGED storeVars
    /\ UNCHANGED idVars

\* puppeteer.launch rejects: the catch block runs.
LaunchFail(j) ==
    /\ pc[j] = "launch"
    /\ crawlJobs' = updateCrawlJob(j, CatchUpdates)
    /\ pc' = [pc EXCEPT ![j] = "failed"]
    /\ UNCHANGED <<crawlResults, currentJobId, currentResultId, browser, idx>>
    /\ UNCHANGED discoveryVars
    /\ UNCHANGED traceVars
    /\ UNCHANGED fileVars
    /\ saveData
    /\ UNCHANGED idVars

\* discoverUrls up to its loop: the sets, and the patterns compiled.
DiscoverStart(j) ==
    /\ pc[j] = "discoverUrls"
    /\ \A k \in 1..Len(crawlJobs[j].regexPatterns) : Compiles(crawlJobs[j].regexPatterns[k])
    /\ visited' = [visited EXCEPT ![j] = {}]
    /\ gotoLog' = [gotoLog EXCEPT ![j] = <<>>]
    /\ linkSources' = [linkSources EXCEPT ![j] = {}]
    /\ settled' = [settled EXCEPT ![j] = {}]
    /\ toVisit' = [toVisit EXCEPT ![j] = <<crawlJobs[j].baseUrl>>]
    /\ discovered' = [discovered EXCEPT ![j] = <<>>]
    /\ currentDepth' = [currentDepth EXCEPT ![j] = 0]
    /\ pc' = [pc EXCEPT ![j] = "while"]
    /\ UNCHANGED <<crawlJobs, crawlResults, currentJobId, currentResultId, browser, idx,
                   currentBatch, promises>>
    /\ UNCHANGED traceVars
    /\ UNCHANGED fileVars
    /\ UNCHANGED storeVars
    /\ UNCHANGED idVars

\* discoverUrls: new RegExp(pattern) throws, and crawlWebsite's catch block runs.
DiscoverThrow(j) ==
    /\ pc[j] = "discoverUrls"
    /\ \E k \in 1..Len(crawlJobs[j].regexPatterns) : ~Compiles(crawlJobs[j].regexPatterns[k])
    /\ crawlJobs' = updateCrawlJob(j, CatchUpdates)
    /\ pc' = [pc EXCEPT ![j] = "failed"]
    /\ UNCHANGED <<crawlResults, currentJobId, currentResultId, browser, idx>>
    /\ UNCHANGED discoveryVars
    /\ UNCHANGED traceVars
    /\ UNCHANGED fileVars
    /\ saveData
    /\ UNCHANGED idVars

\* The loop condition of discoverUrls, with <= for <: the mutant of LoopCondition.
LoopConditionOffByOne(j) ==
    Len(toVisit[j]) > 0 /\ currentDepth[j] <= crawlJobs[j].maxDepth

\* while (toVisit.length > 0 && currentDepth < job.maxDepth)
LoopCondition(j) ==
    Len(toVisit[j]) > 0 /\ currentDepth[j] < crawlJobs[j].maxDepth

Min(a, b) == IF a < b THEN a ELSE b

\* The batch callback without its first line: every batch entry is fetched.
\* The mutant of IsFetched.
IsFetchedAlways(j, batch, k) == TRUE

\* if (visited.has(url)) return []; visited.add(url): whether the callback of
\* batch entry k goes on to fetch. The callbacks run in batch order up to their
\* first await, so entry k sees the entries before it in visited.
IsFetched(j, batch, k) ==
    /\ batch[k] \notin visited[j]
    /\ \A m \in 1..(k - 1) : batch[m] # batch[k]

\* The splice taking the whole frontier: the mutant of BatchSize.
BatchSizeWhole(j) == Len(toVisit[j])

\* toVisit.splice(0, job.maxConcurrent): the number of entries it removes. A
\* negative delete count removes nothing.
BatchSize(j) ==
    Min(Len(toVisit[j]),
        IF crawlJobs[j].maxConcurrent < 0 THEN 0 ELSE crawlJobs[j].maxConcurrent)

\* The callbacks leaving visited as it was: the mutant of VisitedAfter.
VisitedAfterMissing(j, batch) == visited[j]

\* visited.add(url) in every callback of the batch: the visited set once the
\* callbacks have run to their first await.
VisitedAfter(j, batch) == visited[j] \cup Range(batch)

\* The page.goto calls of a wave, in dispatch order: nothing is awaited between
\* the callbacks but the newPage of each.
GotoEvents(j, urls) ==
    [k \in 1..Len(urls) |-> [ev |-> "goto", url |-> urls[k], wave |-> currentDepth[j] + 1]]

\* One iteration of the loop up to Promise.all: the batch is spliced off and
\* every callback runs to its first await.
WaveStart(j) ==
    /\ pc[j] = "while"
    /\ LoopCondition(j)
    /\ LET n == BatchSize(j)
           batch == SubSeq(toVisit[j], 1, n)
           fetched == {k \in 1..n : IsFetched(j, batch, k)}
           urls == SelectSeq([k \in 1..n |-> IF k \in fetched THEN batch[k] ELSE <<>>],
                             LAMBDA u : u # <<>>)
       IN /\ currentBatch' = [currentBatch EXCEPT ![j] = batch]
          /\ toVisit' = [toVisit EXCEPT ![j] = SubSeq(toVisit[j], n + 1, Len(toVisit[j]))]
          /\ visited' = [visited EXCEPT ![j] = VisitedAfter(j, batch)]
          /\ promises' = [promises EXCEPT ![j] =
                [k \in 1..n |-> IF k \in fetched
                                THEN [state |-> "pending", links |-> <<>>]
                                ELSE [state |-> "resolved", links |-> <<>>]]]
          /\ gotoLog' = [gotoLog EXCEPT ![j] = gotoLog[j] \o urls]
          /\ events' = [events EXCEPT ![j] = events[j] \o GotoEvents(j, urls)]
    /\ pc' = [pc EXCEPT ![j] = "wave"]
    /\ UNCHANGED <<crawlJobs, crawlResults, currentJobId, currentResultId, browser, idx,
                   discovered, currentDepth, linkSources, settled, openPages, rejected>>
    /\ UNCHANGED fileVars
    /\ UNCHANGED storeVars
    /\ UNCHANGED idVars

\* The links a callback returns for the page at url:
\* absoluteUrl.startsWith(job.baseUrl) && !visited.has(absoluteUrl)
ExtractLinks(j, url) ==
    SelectSeq(PageLinks(url),
              LAMBDA l : StartsWith(l, crawlJobs[j].baseUrl) /\ l \notin visited[j])

\* The callback of batch entry k returns the links of its page.
FetchOk(j, k) ==
    /\ pc[j] = "wave"
    /\ k \in 1..Len(promises[j])
    /\ promises[j][k].state = "pending"
    /\ promises' = [promises EXCEPT ![j][k] =
            [state |-> "resolved", links |-> ExtractLinks(j, currentBatch[j][k])]]
    /\ linkSources' = [linkSources EXCEPT ![j] = linkSources[j] \cup {currentBatch[j][k]}]
    /\ settled' = [settled EXCEPT ![j] = settled[j] \cup {currentBatch[j][k]}]
    /\ UNCHANGED <<crawlJobs, crawlResults, currentJobId, currentResultId, pc, browser, idx,
                   visited, toVisit, discovered, currentDepth, currentBatch, gotoLog>>
    /\ UNCHANGED traceVars
    /\ UNCHANGED fileVars
    /\ UNCHANGED storeVars
    /\ UNCHANGED idVars

\* The catch block handing back the links of the page: the mutant of
\* FailedFetchLinks.
FailedFetchLinksKept(j, url) == ExtractLinks(j, url)

\* catch (error) { console.error(...); return []; }
FailedFetchLinks(j, url) == <<>>

\* goto, content, the parse or page.close throws in the callback of batch
\* entry k: it logs and returns []. page.close() is the last statement of the
\* try block and the catch block has none, so the page newPage returned stays
\* open. (browser.newPage is taken to return while the browser runs.)
FetchFail(j, k) ==
    /\ pc[j] = "wave"
    /\ k \in 1..Len(promises[j])
    /\ promises[j][k].state = "pending"
    /\ promises' = [promises EXCEPT ![j][k] =
            [state |-> "resolved", links |-> FailedFetchLinks(j, currentBatch[j][k])]]
    /\ settled' = [settled EXCEPT ![j] = settled[j] \cup {currentBatch[j][k]}]
    /\ openPages' = [openPages EXCEPT ![j] = openPages[j] + 1]
    /\ UNCHANGED <<crawlJobs, crawlResults, currentJobId, currentResultId, pc, browser, idx,
                   visited, toVisit, discovered, currentDepth, currentBatch, gotoLog,
                   linkSources, events, rejected>>
    /\ UNCHANGED fileVars
    /\ UNCHANGED storeVars
    /\ UNCHANGED idVars

\* results.flat()
RECURSIVE Flat(_)
Flat(results) ==
    IF results = <<>> THEN <<>> ELSE Head(results).links \o Flat(Tail(results))

\* The discovered set after the forEach over urls: a Set keeps insertion order
\* and ignores an add of a member.
RECURSIVE AddMatching(_, _, _)
AddMatching(set, patterns, urls) ==
    IF urls = <<>> THEN set
    ELSE LET url == Head(urls)
         IN AddMatching(IF Matches(patterns, url) /\ url \notin Range(set)
                        THEN Append(set, url) ELSE set,
                        patterns, Tail(urls))

\* A wave going on as soon as one callback has returned: the mutant of
\* AllSettled.
AnySettled(j) == \E k \in 1..Len(promises[j]) : promises[j][k].state = "resolved"

\* await Promise.all(promises): every callback of the batch has returned.
AllSettled(j) == \A k \in 1..Len(promises[j]) : promises[j][k].state = "resolved"

\* Promise.all resolves: the forEach over newUrls, and currentDepth++.
WaveEnd(j) ==
    /\ pc[j] = "wave"
    /\ AllSettled(j)
    /\ LET newUrls == SelectSeq(Flat(promises[j]), LAMBDA u : u \notin visited[j])
       IN /\ toVisit' = [toVisit EXCEPT ![j] = toVisit[j] \o newUrls]
          /\ discovered' = [discovered EXCEPT ![j] =
                AddMatching(discovered[j], crawlJobs[j].regexPatterns, newUrls)]
    /\ currentDepth' = [currentDepth EXCEPT ![j] = currentDepth[j] + 1]
    /\ currentBatch' = [currentBatch EXCEPT ![j] = <<>>]
    /\ promises' = [promises EXCEPT ![j] = <<>>]
    /\ pc' = [pc EXCEPT ![j] = "while"]
    /\ UNCHANGED <<crawlJobs, crawlResults, currentJobId, currentResultId, browser, idx,
                   visited, gotoLog, linkSources, settled>>
    /\ UNCHANGED traceVars
    /\ UNCHANGED fileVars
    /\ UNCHANGED storeVars
    /\ UNCHANGED idVars

\* The page loop ending one page early: the mutant of PageLoopPc.
PageLoopPcShort(j, i) == IF i < Len(discovered[j]) - 1 THEN "delay" ELSE "close"

\* The page loop calling extractContent without the delay before it: a mutant
\* of PageLoopPc.
PageLoopPcNoDelay(j, i) == IF i < Len(discovered[j]) THEN "extract" ELSE "close"

\* for (let i = 0; i < discoveredUrls.length; i++): where the page loop stands
\* with its index at i, at the delay before page i or at browser.close() after
\* the last page.
PageLoopPc(j, i) == IF i < Len(discovered[j]) THEN "delay" ELSE "close"

\* The loop of discoverUrls ends; crawlWebsite stores totalPages and enters
\* its page loop.
DiscoverReturn(j) ==
    /\ pc[j] = "while"
    /\ ~LoopCondition(j)
    /\ crawlJobs' = updateCrawlJob(j, [totalPages |-> Len(discovered[j])])
    /\ idx' = [idx EXCEPT ![j] = 0]
    /\ pc' = [pc EXCEPT ![j] = PageLoopPc(j, 0)]
    /\ UNCHANGED <<crawlResults, currentJobId, currentResultId, browser>>
    /\ UNCHANGED discoveryVars
    /\ UNCHANGED traceVars
    /\ UNCHANGED fileVars
    /\ saveData
    /\ UNCHANGED idVars

\* The page loop walking the list from its end: the mutant of CurrentUrl.
CurrentUrlFromEnd(j) == discovered[j][Len(discovered[j]) - idx[j]]

\* const url = discoveredUrls[i]
CurrentUrl(j) == discovered[j][idx[j] + 1]

\* this.delay(job.requestDelay) resolves and extractContent is called.
DelayDone(j) ==
    /\ pc[j] = "delay"
    /\ pc' = [pc EXCEPT ![j] = "extract"]
    /\ events' = [events EXCEPT ![j] = events[j] \o
            << [ev |-> "delay", ms |-> crawlJobs[j].requestDelay],
               [ev |-> "extract", url |-> CurrentUrl(j)] >>]
    /\ UNCHANGED <<crawlJobs, crawlResults, currentJobId, currentResultId, browser, idx,
                   openPages, rejected>>
    /\ UNCHANGED discoveryVars
    /\ UNCHANGED fileVars
    /\ UNCHANGED storeVars
    /\ UNCHANGED idVars

\* The InsertCrawlResult of a page whose extraction returned.
SuccessResult(j, url) ==
    [jobId |-> j, url |-> url, title |-> PageTitle(url),
     content |-> (IF PageMarkdown(url) = "" THEN "" ELSE "html"),
     markdownContent |-> PageMarkdown(url),
     fileSize |-> (IF PageMarkdown(url) = "" THEN 0 ELSE 8),
     status |-> "success", errorMessage |-> Null]

\* The error result without its message: the mutant of ErrorResult.
ErrorResultNoMessage(j, url) ==
    [jobId |-> j, url |-> url, title |-> Null, content |-> Null,
     markdownContent |-> Null, fileSize |-> 0, status |-> "error",
     errorMessage |-> Null]

\* The InsertCrawlResult of the inner catch block.
ErrorResult(j, url) ==
    [jobId |-> j, url |-> url, title |-> Null, content |-> Null,
     markdownContent |-> Null, fileSize |-> 0, status |-> "error",
     errorMessage |-> "message"]

\* extractContent resolves: the success result is stored.
ExtractOk(j) ==
    /\ pc[j] = "extract"
    /\ crawlResults' = createCrawlResult(SuccessResult(j, CurrentUrl(j)))
    /\ currentResultId' = currentResultId + 1
    /\ events' = [events EXCEPT ![j] =
            Append(events[j], [ev |-> "store", url |-> CurrentUrl(j)])]
    /\ pc' = [pc EXCEPT ![j] = "progress"]
    /\ UNCHANGED <<crawlJobs, currentJobId, browser, idx, openPages, rejected>>
    /\ UNCHANGED discoveryVars
    /\ UNCHANGED fileVars
    /\ saveData
    /\ issued' = [issued EXCEPT !.results = Append(@, crawlResults'[Len(crawlResults')].id)]
    /\ UNCHANGED restarts

\* extractContent rejects: the inner catch block stores the error result.
\* extractContent has no catch and no finally, and its page.close() comes
\* after every other statement that can throw: the page stays open.
ExtractFail(j) ==
    /\ pc[j] = "extract"
    /\ crawlResults' = createCrawlResult(ErrorResult(j, CurrentUrl(j)))
    /\ currentResultId' = currentResultId + 1
    /\ events' = [events EXCEPT ![j] =
            Append(events[j], [ev |-> "store", url |-> CurrentUrl(j)])]
    /\ openPages' = [openPages EXCEPT ![j] = openPages[j] + 1]
    /\ pc' = [pc EXCEPT ![j] = "progress"]
    /\ UNCHANGED <<crawlJobs, currentJobId, browser, idx, rejected>>
    /\ UNCHANGED discoveryVars
    /\ UNCHANGED fileVars
    /\ saveData
    /\ issued' = [issued EXCEPT !.results = Append(@, crawlResults'[Len(crawlResults')].id)]
    /\ UNCHANGED restarts

\* The progress update counting one page too many: the mutant of ProgressUpdates.
ProgressUpdatesOffByOne(i) == [processedPages |-> i + 2]

\* { processedPages: i + 1 }
ProgressUpdates(i) == [processedPages |-> i + 1]

\* updateCrawlJob(jobId, {processedPages: i + 1}) and i++, in either branch.
Progress(j) ==
    /\ pc[j] = "progress"
    /\ crawlJobs' = updateCrawlJob(j, ProgressUpdates(idx[j]))
    /\ idx' = [idx EXCEPT ![j] = idx[j] + 1]
    /\ pc' = [pc EXCEPT ![j] = PageLoopPc(j, idx[j] + 1)]
    /\ UNCHANGED <<crawlResults, currentJobId, currentResultId, browser>>
    /\ UNCHANGED discoveryVars
    /\ UNCHANGED traceVars
    /\ UNCHANGED fileVars
    /\ saveData
    /\ UNCHANGED idVars

\* browser.close() resolves, which closes the pages the browser still has:
\* the job is completed.
CloseOk(j) ==
    /\ pc[j] = "close"
    /\ browser' = [browser EXCEPT ![j] = "closed"]
    /\ openPages' = [openPages EXCEPT ![j] = 0]
    /\ crawlJobs' = updateCrawlJob(j, [status |-> "completed"])
    /\ pc' = [pc EXCEPT ![j] = "done"]
    /\ UNCHANGED <<crawlResults, currentJobId, currentResultId, idx, events, rejected>>
    /\ UNCHANGED discoveryVars
    /\ UNCHANGED fileVars
    /\ saveData
    /\ UNCHANGED idVars

\* browser.close() rejects: the catch block runs.
CloseFail(j) ==
    /\ pc[j] = "close"
    /\ crawlJobs' = updateCrawlJob(j, CatchUpdates)
    /\ pc' = [pc EXCEPT ![j] = "failed"]
    /\ UNCHANGED <<crawlResults, currentJobId, currentResultId, browser, idx>>
    /\ UNCHANGED discoveryVars
    /\ UNCHANGED traceVars
    /\ UNCHANGED fileVars
    /\ saveData
    /\ UNCHANGED idVars

Next ==
    \/ \E insertJob \in Bodies(currentJobId) : CreateJob(insertJob)
    \/ \E body \in Bodies(currentJobId) : RejectJob(body)
    \/ \E j \in JobIds : StartCrawl(j)
    \/ \E j \in JobIds : SetRunning(j)
    \/ \E j \in JobIds : LaunchOk(j)
    \/ \E j \in JobIds : LaunchFail(j)
    \/ \E j \in JobIds : DiscoverStart(j)
    \/ \E j \in JobIds : DiscoverThrow(j)
    \/ \E j \in JobIds : WaveStart(j)
    \/ \E j \in JobIds : \E k \in DOMAIN promises[j] : FetchOk(j, k)
    \/ \E j \in JobIds : \E k \in DOMAIN promises[j] : FetchFail(j, k)
    \/ \E j \in JobIds : WaveEnd(j)
    \/ \E j \in JobIds : DiscoverReturn(j)
    \/ \E j \in JobIds : DelayDone(j)
    \/ \E j \in JobIds : ExtractOk(j)
    \/ \E j \in JobIds : ExtractFail(j)
    \/ \E j \in JobIds : Progress(j)
    \/ \E j \in JobIds : CloseOk(j)
    \/ \E j \in JobIds : CloseFail(j)

Spec == Init /\ [][Next]_vars

\* The steps of the run of job j.
JobNext(j) ==
    \/ StartCrawl(j) \/ SetRunning(j) \/ LaunchOk(j) \/ LaunchFail(j)
    \/ DiscoverStart(j) \/ DiscoverThrow(j) \/ WaveStart(j)
    \/ \E k \in DOMAIN promises[j] : FetchOk(j, k) \/ FetchFail(j, k)
    \/ WaveEnd(j) \/ DiscoverReturn(j) \/ DelayDone(j)
    \/ ExtractOk(j) \/ ExtractFail(j) \/ Progress(j)
    \/ CloseOk(j) \/ CloseFail(j)

\* ------------------------------------------------------------------ file names
\* A string is the sequence of its UTF-16 code units, each written as a
\* one-character string.
Lowercase ==
    <<"a", "b", "c", "d", "e", "f", "g", "h", "i", "j", "k", "l", "m",
      "n", "o", "p", "q", "r", "s", "t", "u", "v", "w", "x", "y", "z">>

Uppercase ==
    <<"A", "B", "C", "D", "E", "F", "G", "H", "I", "J", "K", "L", "M",
      "N", "O", "P", "Q", "R", "S", "T", "U", "V", "W", "X", "Y", "Z">>

Digits == {"0", "1", "2", "3", "4", "5", "6", "7", "8", "9"}

\* The length substring(0, 50) cuts a file name to.
FileNameLimit == 50

\* Length of the short names sanitizeFileName is called with.
MaxNameLen == 2

\* The code units the names are made of: a lowercase and an uppercase letter, a
\* digit, the underscore, a punctuation mark, a space and a letter outside
\* ASCII.
NameChars == {"a", "Z", "7", "_", "!", " ", "É"}

\* "My Article! #1"
MyArticle == <<"M", "y", " ", "A", "r", "t", "i", "c", "l", "e", "!", " ", "#", "1">>

\* The names of length at most MaxNameLen.
ShortNames == UNION {[1..n -> NameChars] : n \in 0..MaxNameLen}

\* The name of length n that repeats seed.
Cycle(seed, n) == [k \in 1..n |-> seed[((k - 1) % Len(seed)) + 1]]

\* The names sanitizeFileName is called with: the short ones, names of a length
\* around the limit, and "My Article! #1".
Names ==
    ShortNames
        \cup {Cycle(seed, n) : seed \in ShortNames \ {<<>>},
                               n \in (FileNameLimit - 1)..(FileNameLimit + 2)}
        \cup {MyArticle}

\* toLowerCase leaving every code unit as it is: the mutant of toLowerCase.
toLowerCaseIdentity(c) == c

\* String.prototype.toLowerCase on one code unit.
toLowerCase(c) ==
    IF \E k \in 1..Len(Uppercase) : Uppercase[k] = c
    THEN Lowercase[CHOOSE k \in 1..Len(Uppercase) : Uppercase[k] = c]
    ELSE IF c = "É" THEN "é" ELSE c

\* The class [^a-z0-9] under the flag i, without the flag u: a code unit
\* outside ASCII never folds to an ASCII letter.
NotAlphanumeric(c) == c \notin (Range(Lowercase) \cup Range(Uppercase) \cup Digits)

\* substring cutting one code unit later: the mutant of substring.
substringLate(s, from, to) ==
    SubSeq(s, from + 1, IF to + 1 < Len(s) THEN to + 1 ELSE Len(s))

\* String.prototype.substring(from, to) for 0 <= from <= to.
substring(s, from, to) == SubSeq(s, from + 1, IF to < Len(s) THEN to ELSE Len(s))

\* name.replace(/[^a-z0-9]/gi, '_').toLowerCase().substring(0, 50)
sanitizeFileName(str) ==
    LET replaced == [k \in 1..Len(str) |-> IF NotAlphanumeric(str[k]) THEN "_" ELSE str[k]]
        lowered == [k \in 1..Len(replaced) |-> toLowerCase(replaced[k])]
    IN substring(lowered, 0, FileNameLimit)

\* A call sanitizeFileName(name).
Sanitize ==
    /\ fileName = <<>>
    /\ fileName' = <<sanitizeFileName(name)>>
    /\ UNCHANGED <<crawlJobs, crawlResults, currentJobId, currentResultId, pc, browser, idx,
                   response, archive, document, mainContent, name>>
    /\ UNCHANGED storeVars
    /\ UNCHANGED idVars
    /\ UNCHANGED discoveryVars
    /\ UNCHANGED traceVars

\* A call of sanitizeFileName on the value the first call returned.
SanitizeAgain ==
    /\ Len(fileName) = 1
    /\ fileName' = Append(fileName, sanitizeFileName(fileName[1]))
    /\ UNCHANGED <<crawlJobs, crawlResults, currentJobId, currentResultId, pc, browser, idx,
                   response, archive, document, mainContent, name>>
    /\ UNCHANGED storeVars
    /\ UNCHANGED idVars
    /\ UNCHANGED discoveryVars
    /\ UNCHANGED traceVars

SanitizeInit ==
    /\ CrawlerInit
    /\ diskFaults = 0
    /\ archive = NoArchive
    /\ document = <<>>
    /\ mainContent = <<>>
    /\ name \in Names
    /\ fileName = <<>>

SanitizeNext == Sanitize \/ SanitizeAgain

\* sanitizeFileName called on every name of Names.
SanitizeSpec == SanitizeInit /\ [][SanitizeNext]_vars

\* ------------------------------------------------------------------ main content
\* The selectors of the content containers, in the order the selector string
\* lists them.
ContentSelectors ==
    <<"article", "main", ".content", ".post-content", ".entry-content", ".article-content">>

\* A cleaned page is the sequence of the elements of its body in document
\* order, each named by the one content selector it matches, or "div" if it
\* matches none.
Elements == Range(ContentSelectors) \cup {"div"}

\* The elements of a page, at most.
MaxElements == 3

Documents == UNION {[1..n -> Elements] : n \in 0..MaxElements}

\* $('article, main, ...').first(), and $('body') when nothing matches: a
\* selector list matches the elements that match any of its selectors, in
\* document order. The result is the position of the element, 0 for the body.
RECURSIVE FirstMatch(_, _)
FirstMatch(doc, i) ==
    IF i > Len(doc) THEN 0
    ELSE IF doc[i] \in Range(ContentSelectors) THEN i
    ELSE FirstMatch(doc, i + 1)

\* extractContent selects the main content of the page.
SelectMainContent ==
    /\ mainContent = <<>>
    /\ mainContent' = <<FirstMatch(document, 1)>>
    /\ UNCHANGED <<crawlJobs, crawlResults, currentJobId, currentResultId, pc, browser, idx,
                   response, archive, document, name, fileName>>
    /\ UNCHANGED discoveryVars
    /\ UNCHANGED traceVars
    /\ UNCHANGED storeVars
    /\ UNCHANGED idVars

SelectInit ==
    /\ CrawlerInit
    /\ diskFaults = 0
    /\ archive = NoArchive
    /\ document \in Documents
    /\ mainContent = <<>>
    /\ name = <<>>
    /\ fileName = <<>>

SelectNext == SelectMainContent

\* extractContent's selection on every page of Documents.
SelectSpec == SelectInit /\ [][SelectNext]_vars

\* ------------------------------------------------------------------ disk faults
\* The writes of storage-data.json that fail in one run, at most.
MaxDiskFaults == 1

\* The store on a disk where writes can fail, with one submission to come: the
\* ones before it were malformed.
PersistInit ==
    /\ StoreInit(MaxJobs - 1)
    /\ diskFaults = MaxDiskFaults
    /\ archive = NoArchive
    /\ document = <<>>
    /\ mainContent = <<>>
    /\ name = <<>>
    /\ fileName = <<>>

PersistSpec == PersistInit /\ [][Next]_vars

\* Every launch, fetch, delay and close returns or fails, and the event loop
\* runs every continuation that is ready; writes of the data file may fail.
FairSpec == PersistSpec /\ \A j \in JobIds : WF_vars(JobNext(j))

\* ------------------------------------------------------------------ restart
\* The bodies submitted where the store is studied: the first job is the
\* smallest crawl with two pages to store, the second has one page or a
\* pattern that does not compile, and a later one that pattern.
SmallBodies(id) ==
    {[baseUrl |-> <<"h">>, regexPatterns |-> << p >>, maxDepth |-> 1,
      requestDelay |-> 100, maxConcurrent |-> 1] :
        p \in (IF id = 1 THEN {<<"h">>}
               ELSE IF id = 2 THEN {<<"b">>, <<"(">>}
               ELSE {<<"(">>})}

\* A submission that is stored, one of the MaxStoreJobs jobs of a process.
CreateSmallJob(insertJob) ==
    /\ currentJobId <= MaxStoreJobs
    /\ Submit(insertJob)

\* A load that starts every counter again: the mutant of LoadedCounter.
LoadedCounterForgotten(saved) == 1

\* this.currentJobId = data.currentJobId || 1
LoadedCounter(saved) == IF saved = 0 THEN 1 ELSE saved

\* The server process ends and is started again: the runs of the old process
\* are gone, and the constructor of the store calls loadData. JSON.parse throws
\* on a torn file, before anything is assigned; the error is logged and the
\* store is left empty with its counters at 1.
Restart ==
    /\ restarts < MaxRestarts
    /\ restarts' = restarts + 1
    /\ crawlJobs' = (IF persisted.torn THEN <<>> ELSE persisted.crawlJobs)
    /\ crawlResults' = (IF persisted.torn THEN <<>> ELSE persisted.crawlResults)
    /\ currentJobId' = (IF persisted.torn THEN 1 ELSE LoadedCounter(persisted.currentJobId))
    /\ currentResultId' =
            (IF persisted.torn THEN 1 ELSE LoadedCounter(persisted.currentResultId))
    /\ pc' = [j \in JobIds |-> "none"]
    /\ browser' = [j \in JobIds |-> "none"]
    /\ visited' = [j \in JobIds |-> {}]
    /\ toVisit' = [j \in JobIds |-> <<>>]
    /\ discovered' = [j \in JobIds |-> <<>>]
    /\ currentDepth' = [j \in JobIds |-> 0]
    /\ currentBatch' = [j \in JobIds |-> <<>>]
    /\ promises' = [j \in JobIds |-> <<>>]
    /\ idx' = [j \in JobIds |-> 0]
    /\ gotoLog' = [j \in JobIds |-> <<>>]
    /\ linkSources' = [j \in JobIds |-> {}]
    /\ settled' = [j \in JobIds |-> {}]
    /\ events' = [j \in JobIds |-> <<>>]
    /\ openPages' = [j \in JobIds |-> 0]
    /\ UNCHANGED <<rejected, issued>>
    /\ UNCHANGED fileVars
    /\ UNCHANGED storeVars

\* The store of a process with jobs side by side, on a disk where every write
\* goes through: a restart is a save followed by a load.
RestartInit ==
    /\ StoreInit(0)
    /\ diskFaults = 0
    /\ archive = NoArchive
    /\ document = <<>>
    /\ mainContent = <<>>
    /\ name = <<>>
    /\ fileName = <<>>

RestartNext ==
    \/ \E insertJob \in SmallBodies(currentJobId) : CreateSmallJob(insertJob)
    \/ \E j \in JobIds : JobNext(j)
    \/ Restart

\* Small jobs running side by side in a process that may be started again.
RestartSpec == RestartInit /\ [][RestartNext]_vars

\* ------------------------------------------------------------------ download
\* MemStorage.getCrawlResults as the array it returns: the results of the job
\* sorted by createdAt, newest first. The results of a job are created a
\* delay apart, one after the other, so this is the reverse of their creation.
RECURSIVE ResultsNewestFirst(_, _)
ResultsNewestFirst(jobId, r) ==
    IF r = 0 THEN <<>>
    ELSE (IF crawlResults[r].jobId = jobId THEN <<crawlResults[r]>> ELSE <<>>)
            \o ResultsNewestFirst(jobId, r - 1)

\* if (result.markdownContent && result.status === 'success'): null and the
\* empty string are falsy.
IsArchived(result) ==
    /\ result.markdownContent # Null
    /\ result.markdownContent # ""
    /\ result.status = "success"

\* `${index + 1}-${sanitizeFileName(result.title || result.url)}.md`
EntryName(result, index) ==
    <<ToString(index + 1), "-">>
        \o sanitizeFileName(IF result.title # Null THEN result.title ELSE result.url)
        \o <<".", "m", "d">>

\* The entries results.forEach appends to the archive, from index on.
RECURSIVE ArchiveEntries(_, _)
ArchiveEntries(results, index) ==
    IF index >= Len(results) THEN <<>>
    ELSE (IF IsArchived(results[index + 1])
          THEN <<[name |-> EntryName(results[index + 1], index),
                  content |-> results[index + 1].markdownContent]>>
          ELSE <<>>)
            \o ArchiveEntries(results, index + 1)

\* GET /api/crawl-jobs/:id/download for a job the store holds: the zip.
Download(j) ==
    /\ j \in 1..Len(crawlJobs)
    /\ LET results == ResultsNewestFirst(j, Len(crawlResults))
       IN archive' = [status |-> 200, jobId |-> j, found |-> Len(results),
                      entries |-> ArchiveEntries(results, 0)]
    /\ UNCHANGED <<crawlJobs, crawlResults, currentJobId, currentResultId, pc, browser, idx,
                   response, document, mainContent, name, fileName>>
    /\ UNCHANGED discoveryVars
    /\ UNCHANGED traceVars
    /\ UNCHANGED storeVars
    /\ UNCHANGED idVars

\* GET /api/crawl-jobs/:id/download for an id the store does not hold: 404.
DownloadNotFound(j) ==
    /\ j \notin 1..Len(crawlJobs)
    /\ archive' = [status |-> 404, jobId |-> j, found |-> 0, entries |-> <<>>]
    /\ UNCHANGED <<crawlJobs, crawlResults, currentJobId, currentResultId, pc, browser, idx,
                   response, document, mainContent, name, fileName>>
    /\ UNCHANGED discoveryVars
    /\ UNCHANGED traceVars
    /\ UNCHANGED storeVars
    /\ UNCHANGED idVars

DownloadNext ==
    \/ Next
    \/ \E j \in JobIds : Download(j)
    \/ \E j \in JobIds : DownloadNotFound(j)

\* The store with one submission to come: the ones before it were malformed.
DownloadInit ==
    /\ StoreInit(MaxJobs - 1)
    /\ diskFaults = 0
    /\ archive = NoArchive
    /\ document = <<>>
    /\ mainContent = <<>>
    /\ name = <<>>
    /\ fileName = <<>>

\* The job runs with download requests arriving at any time.
DownloadSpec == DownloadInit /\ [][DownloadNext]_vars

\* ------------------------------------------------------------------ claims
\* The ids of the jobs the store holds.
StoredJobs == 1..Len(crawlJobs)

\* C1 as stated: for every job, no step lowers the stored processedPages.
C1_ProcessedPagesNeverLowered ==
    [][\A j \in StoredJobs :
            crawlJobs'[j].processedPages >= crawlJobs[j].processedPages]_vars

\* C1 amended: for every job, a step lowers the stored processedPages only when
\* it moves the job from running to error, and then it sets it to 0; every
\* other step leaves it as it was or raises it.
C1_ProcessedPagesLoweredOnlyByError ==
    [][\A j \in StoredJobs :
            \/ crawlJobs'[j].processedPages >= crawlJobs[j].processedPages
            \/ /\ crawlJobs[j].status = "running"
               /\ crawlJobs'[j].status = "error"
               /\ crawlJobs'[j].processedPages = 0]_vars

\* A job whose counter went up to two pages and was then reset by the catch block.
C1_Witness ==
    \E j \in StoredJobs :
        /\ crawlJobs[j].status = "error"
        /\ crawlJobs[j].processedPages = 0
        /\ idx[j] >= 2

\* C2: in every state, and so in every state after discovery has stored
\* totalPages, a job's processedPages is at most its totalPages.
C2_ProcessedAtMostTotal ==
    \A j \in StoredJobs : crawlJobs[j].processedPages <= crawlJobs[j].totalPages

\* A job past discovery whose counter has reached a totalPages of two or more.
C2_Witness ==
    \E j \in StoredJobs :
        /\ pc[j] = "close"
        /\ crawlJobs[j].totalPages >= 2
        /\ crawlJobs[j].processedPages = crawlJobs[j].totalPages

\* The status changes a step may make.
StatusSteps ==
    {<<"pending", "running">>, <<"running", "completed">>, <<"running", "error">>}

\* C3: a job is stored with status pending, and a step that changes the status
\* of a job takes it from pending to running, from running to completed or from
\* running to error; so completed and error are never left.
C3_StatusSteps ==
    [][/\ \A j \in StoredJobs :
             \/ crawlJobs'[j].status = crawlJobs[j].status
             \/ <<crawlJobs[j].status, crawlJobs'[j].status>> \in StatusSteps
       /\ \A j \in 1..Len(crawlJobs') :
             j \notin StoredJobs => crawlJobs'[j].status = "pending"]_vars

\* A job that went all the way to completed with pages processed.
C3_Witness ==
    \E j \in StoredJobs :
        /\ crawlJobs[j].status = "completed"
        /\ pc[j] = "done"
        /\ crawlJobs[j].processedPages >= 1

\* The results stored for job j and the URL at index k of its discovered list.
ResultsFor(j, k) ==
    {r \in getCrawlResults(j) : crawlResults[r].url = discovered[j][k]}

\* C4: for every completed job the number of results stored with its id is its
\* totalPages, one for each discovered URL, and every stored result carries
\* the id of a stored job that discovered its URL.
C4_CompletedResults ==
    /\ \A j \in StoredJobs :
          crawlJobs[j].status = "completed" =>
              /\ Cardinality(getCrawlResults(j)) = crawlJobs[j].totalPages
              /\ \A k \in 1..Len(discovered[j]) : Cardinality(ResultsFor(j, k)) = 1
    /\ \A r \in 1..Len(crawlResults) :
          /\ crawlResults[r].jobId \in StoredJobs
          /\ crawlResults[r].url \in Range(discovered[crawlResults[r].jobId])

\* A completed job with two or more results, a success and an error among them.
C4_Witness ==
    \E j \in StoredJobs :
        /\ crawlJobs[j].status = "completed"
        /\ crawlJobs[j].totalPages >= 2
        /\ \E r1, r2 \in getCrawlResults(j) :
              crawlResults[r1].status = "success" /\ crawlResults[r2].status = "error"

\* The error results stored for job j.
ErrorResultsOf(j) == {r \in getCrawlResults(j) : crawlResults[r].status = "error"}

\* The number of pages of job j whose result is stored.
PagesStored(j) == idx[j] + (IF pc[j] = "progress" THEN 1 ELSE 0)

\* C5 as stated: a job that ended with a failed page among its results ended
\* completed.
C5_PageFailureEndsCompleted ==
    \A j \in StoredJobs :
        ErrorResultsOf(j) # {} /\ pc[j] \in {"done", "failed"} =>
            crawlJobs[j].status = "completed"

\* C5 amended: a failed page leaves exactly one error result (title and content
\* null, errorMessage populated), processedPages is advanced for it as for any
\* page, the loop goes on to the last URL, and the job ends completed unless
\* closing the engine after the loop throws: then it ends error, with a result
\* stored for every discovered URL.
C5_PageFailureIsData ==
    \A j \in StoredJobs :
        /\ \A r \in ErrorResultsOf(j) :
              /\ crawlResults[r].title = Null
              /\ crawlResults[r].content = Null
              /\ crawlResults[r].errorMessage # Null
        /\ \A k \in 1..Len(discovered[j]) :
              Cardinality(ResultsFor(j, k)) = (IF k <= PagesStored(j) THEN 1 ELSE 0)
        /\ pc[j] \in {"delay", "extract", "close"} =>
              /\ crawlJobs[j].status = "running"
              /\ crawlJobs[j].processedPages = Cardinality(getCrawlResults(j))
        /\ ErrorResultsOf(j) # {} /\ pc[j] \in {"done", "failed"} =>
              /\ idx[j] = Len(discovered[j])
              /\ pc[j] = "done" <=> crawlJobs[j].status = "completed"
              /\ pc[j] = "failed" <=> crawlJobs[j].status = "error"

\* A completed job whose first page failed and whose second page succeeded.
C5_Witness ==
    \E j \in StoredJobs :
        /\ crawlJobs[j].status = "completed"
        /\ crawlJobs[j].processedPages >= 2
        /\ \E r1, r2 \in getCrawlResults(j) :
              /\ r1 < r2
              /\ crawlResults[r1].status = "error"
              /\ crawlResults[r2].status = "success"

\* C6: a job whose engine failed to start has status error and processedPages
\* 0, and no result is stored for it, in that state and in every later one.
C6_EngineStartFailure ==
    \A j \in StoredJobs :
        pc[j] = "failed" /\ browser[j] = "none" =>
            /\ crawlJobs[j].status = "error"
            /\ crawlJobs[j].processedPages = 0
            /\ getCrawlResults(j) = {}

\* A job whose launch was rejected.
C6_Witness ==
    \E j \in StoredJobs :
        pc[j] = "failed" /\ browser[j] = "none" /\ crawlJobs[j].totalPages = 0

\* C7: a step in which an exception escapes the try of job j (the launch, the
\* pattern compilation or the close throws) stores status error and
\* processedPages 0 for it and leaves its totalPages and every stored result
\* as they were.
C7_EscapedException ==
    [][\A j \in StoredJobs :
            pc[j] # "failed" /\ pc'[j] = "failed" =>
                /\ crawlJobs'[j].status = "error"
                /\ crawlJobs'[j].processedPages = 0
                /\ crawlJobs'[j].totalPages = crawlJobs[j].totalPages
                /\ crawlResults' = crawlResults]_vars

\* A job that failed at the close with totalPages set and all its results stored.
C7_Witness ==
    \E j \in StoredJobs :
        /\ pc[j] = "failed"
        /\ crawlJobs[j].status = "error"
        /\ crawlJobs[j].totalPages >= 1
        /\ Cardinality(getCrawlResults(j)) = crawlJobs[j].totalPages

\* C8: discovery navigates to no URL twice: the log of the URLs it fetched
\* holds each URL once.
C8_NoRefetch ==
    \A j \in JobIds :
        \A m, n \in 1..Len(gotoLog[j]) : gotoLog[j][m] = gotoLog[j][n] => m = n

\* A wave whose batch holds the same URL twice.
C8_Witness ==
    \E j \in StoredJobs :
        /\ pc[j] = "wave"
        /\ \E m, n \in 1..Len(currentBatch[j]) :
              m < n /\ currentBatch[j][m] = currentBatch[j][n]

\* The number of waves discovery of job j has started.
WavesStarted(j) == currentDepth[j] + (IF pc[j] = "wave" THEN 1 ELSE 0)

\* C9: discovery starts at most maxDepth waves, and under FairSpec a discovery
\* that was entered is left.
C9_DiscoveryTerminates ==
    /\ [](\A j \in StoredJobs : WavesStarted(j) <= crawlJobs[j].maxDepth)
    /\ \A j \in JobIds :
          (pc[j] = "discoverUrls") ~> (pc[j] \notin {"discoverUrls", "while", "wave"})

\* A discovery stopped by maxDepth with the frontier not empty, on a site whose
\* pages link back to baseUrl.
C9_Witness ==
    \E j \in StoredJobs :
        /\ pc[j] = "while"
        /\ crawlJobs[j].maxDepth >= 2
        /\ currentDepth[j] = crawlJobs[j].maxDepth
        /\ Len(toVisit[j]) > 0
        /\ \E p \in linkSources[j] \ {crawlJobs[j].baseUrl} :
              crawlJobs[j].baseUrl \in Range(PageLinks(p))

\* Discovery of job j has returned.
DiscoveryEnded(j) ==
    pc[j] \notin {"none", "created", "start", "launch", "discoverUrls", "while", "wave"}

\* The same-site links of the pages discovery of job j fetched successfully.
SeenLinks(j) ==
    {u \in UNION {Range(PageLinks(p)) : p \in linkSources[j]} :
        StartsWith(u, crawlJobs[j].baseUrl)}

\* The pattern, read as a literal, is a substring of the URL.
OccursIn(pattern, url) ==
    \E a \in 1..(Len(url) + 1) : \E b \in 0..Len(url) : SubSeq(url, a, b) = pattern

\* The URL matches at least one of the job's pattern rules, unanchored.
MatchesARule(j, url) ==
    \E k \in 1..Len(crawlJobs[j].regexPatterns) :
        OccursIn(crawlJobs[j].regexPatterns[k], url)

\* C10 as stated: at the end of discovery a same-site link of a fetched page is
\* in discovered iff it matches a pattern rule.
C10_DiscoveredIffMatches ==
    \A j \in StoredJobs :
        DiscoveryEnded(j) =>
            \A u \in SeenLinks(j) :
                u \in Range(discovered[j]) <=> MatchesARule(j, u)

\* C10 amended: at the end of discovery a same-site link of a fetched page,
\* other than baseUrl itself, is in discovered iff it matches a pattern rule
\* under an unanchored test.
C10_DiscoveredIffMatchesButSeed ==
    \A j \in StoredJobs :
        DiscoveryEnded(j) =>
            \A u \in SeenLinks(j) \ {crawlJobs[j].baseUrl} :
                u \in Range(discovered[j]) <=> MatchesARule(j, u)

\* A discovery that ended with a link in discovered, a link left out, and the
\* seed among the links seen.
C10_Witness ==
    \E j \in StoredJobs :
        /\ DiscoveryEnded(j)
        /\ crawlJobs[j].baseUrl \in SeenLinks(j)
        /\ \E u, w \in SeenLinks(j) \ {crawlJobs[j].baseUrl} :
              u \in Range(discovered[j]) /\ w \notin Range(discovered[j])

\* C11: the baseUrl of a job is never a member of its discovered set, whether
\* or not it matches a rule and whether or not fetched pages link back to it.
C11_SeedNeverDiscovered ==
    \A j \in StoredJobs : crawlJobs[j].baseUrl \notin Range(discovered[j])

\* A discovery that ended with the seed matching a rule, a fetched page other
\* than the seed linking back to it, and other URLs discovered.
C11_Witness ==
    \E j \in StoredJobs :
        /\ DiscoveryEnded(j)
        /\ MatchesARule(j, crawlJobs[j].baseUrl)
        /\ \E p \in linkSources[j] \ {crawlJobs[j].baseUrl} :
              crawlJobs[j].baseUrl \in Range(PageLinks(p))
        /\ discovered[j] # <<>>
        /\ crawlJobs[j].baseUrl \notin Range(discovered[j])

\* The run of job j got past discoverUrls: the page loop, browser.close() or the
\* end of the run after them.
DiscoveryReturned(j) ==
    \/ pc[j] \in {"delay", "extract", "progress", "close", "done"}
    \/ /\ pc[j] = "failed"
       /\ browser[j] = "open"
       /\ \A k \in 1..Len(crawlJobs[j].regexPatterns) : Compiles(crawlJobs[j].regexPatterns[k])

\* The same-site links of the page at baseUrl that match a rule of job j.
MatchingSeedLinks(j) ==
    {u \in Range(PageLinks(crawlJobs[j].baseUrl)) :
        StartsWith(u, crawlJobs[j].baseUrl) /\ MatchesARule(j, u)}

\* The results of job j for the URL u.
ResultsOfUrl(j, u) == {r \in getCrawlResults(j) : crawlResults[r].url = u}

\* Every discovered URL of job j has exactly one result, a success or an error,
\* and the job has no other result.
OneResultEach(j) ==
    /\ \A u \in Range(discovered[j]) :
          /\ Cardinality(ResultsOfUrl(j, u)) = 1
          /\ \A r \in ResultsOfUrl(j, u) : crawlResults[r].status \in {"success", "error"}
    /\ Cardinality(getCrawlResults(j)) = Len(discovered[j])

\* The jobs submitted with maxDepth = 1 and maxConcurrent = 1.
SingleWaveJobs ==
    {j \in StoredJobs : crawlJobs[j].maxDepth = 1 /\ crawlJobs[j].maxConcurrent = 1}

\* C12 as stated: a run with maxDepth = 1 and maxConcurrent = 1 that got past
\* discovery and ended has fetched only baseUrl, has discovered exactly the
\* same-site links of that page that match a rule, has one result for each, and
\* ended completed with totalPages = |discovered|.
C12_SingleWaveEndsCompleted ==
    \A j \in SingleWaveJobs :
        (pc[j] \in {"done", "failed"} /\ DiscoveryReturned(j)) =>
            /\ gotoLog[j] = <<crawlJobs[j].baseUrl>>
            /\ Range(discovered[j]) = MatchingSeedLinks(j)
            /\ OneResultEach(j)
            /\ crawlJobs[j].status = "completed"
            /\ crawlJobs[j].totalPages = Len(discovered[j])

\* C12 amended: with maxDepth = 1 and maxConcurrent = 1 discovery fetches
\* baseUrl and nothing else; once it has returned, discovered is the set of the
\* same-site links of that page, baseUrl left out, that match a rule when the
\* fetch returned and is empty when it failed, and totalPages = |discovered|;
\* when the page loop has ended each discovered URL has exactly one success or
\* error result; and the run ends completed when browser.close() returns and
\* error with processedPages 0 when it throws.
C12_SingleWave ==
    \A j \in SingleWaveJobs :
        /\ Range(gotoLog[j]) \subseteq {crawlJobs[j].baseUrl}
        /\ Len(gotoLog[j]) <= 1
        /\ DiscoveryReturned(j) =>
              /\ gotoLog[j] = <<crawlJobs[j].baseUrl>>
              /\ Range(discovered[j]) =
                    IF crawlJobs[j].baseUrl \in linkSources[j]
                    THEN MatchingSeedLinks(j) \ {crawlJobs[j].baseUrl}
                    ELSE {}
              /\ crawlJobs[j].totalPages = Len(discovered[j])
              /\ pc[j] \in {"close", "done", "failed"} => OneResultEach(j)
              /\ pc[j] = "done" => crawlJobs[j].status = "completed"
              /\ pc[j] = "failed" =>
                    crawlJobs[j].status = "error" /\ crawlJobs[j].processedPages = 0

\* A run with maxDepth = 1 and maxConcurrent = 1 that ended completed, whose
\* seed page links to itself and matches a rule, with a success result and an
\* error result among those of the discovered URLs.
C12_Witness ==
    \E j \in SingleWaveJobs :
        /\ pc[j] = "done"
        /\ crawlJobs[j].status = "completed"
        /\ crawlJobs[j].baseUrl \in MatchingSeedLinks(j)
        /\ Len(discovered[j]) >= 2
        /\ crawlJobs[j].totalPages = Len(discovered[j])
        /\ \E r, q \in getCrawlResults(j) :
              crawlResults[r].status = "success" /\ crawlResults[q].status = "error"

\* The fetch operations of job j in flight: the batch callbacks of discovery
\* that have not returned, and the extractContent call of the page loop.
InFlight(j) ==
    Cardinality({k \in 1..Len(promises[j]) : promises[j][k].state = "pending"})
        + (IF pc[j] = "extract" THEN 1 ELSE 0)

\* C13: in every state of a job run submitted with maxConcurrent >= 1, the
\* number of fetch operations in flight is at most maxConcurrent.
C13_InFlightAtMostMaxConcurrent ==
    \A j \in StoredJobs :
        crawlJobs[j].maxConcurrent >= 1 => InFlight(j) <= crawlJobs[j].maxConcurrent

\* A wave with maxConcurrent = 2 fetches in flight and more URLs waiting in the
\* frontier.
C13_Witness ==
    \E j \in StoredJobs :
        /\ crawlJobs[j].maxConcurrent = 2
        /\ InFlight(j) = 2
        /\ toVisit[j] # <<>>

\* C14 as stated: in the event log of a job, between two fetch dispatches of the
\* same discovery wave there is a delay of requestDelay.
C14_DelayBetweenWaveFetches ==
    \A j \in StoredJobs :
        \A a, b \in 1..Len(events[j]) :
            (/\ a < b
             /\ events[j][a].ev = "goto"
             /\ events[j][b].ev = "goto"
             /\ events[j][a].wave = events[j][b].wave)
            => \E c \in (a + 1)..(b - 1) :
                  /\ events[j][c].ev = "delay"
                  /\ events[j][c].ms = crawlJobs[j].requestDelay

\* The events of the page loop of job j, in order.
PageEvents(j) == SelectSeq(events[j], LAMBDA e : e.ev # "goto")

\* C15: the page-loop events of a job are, in order and for k = 1, 2, ...: a
\* delay of requestDelay, the extraction fetch of the k-th discovered URL, the
\* storing of that URL's result; so a fetch starts only after the result before
\* it was stored, a delay precedes every fetch, and at most one extraction is
\* in flight.
C15_ExtractionSequential ==
    \A j \in StoredJobs :
        /\ \A n \in 1..Len(PageEvents(j)) :
              LET e == PageEvents(j)[n]
                  k == (n + 2) \div 3
              IN /\ k <= Len(discovered[j])
                 /\ n % 3 = 1 => e.ev = "delay" /\ e.ms = crawlJobs[j].requestDelay
                 /\ n % 3 = 2 => e.ev = "extract" /\ e.url = discovered[j][k]
                 /\ n % 3 = 0 => e.ev = "store" /\ e.url = discovered[j][k]
        /\ (pc[j] = "extract") <=> (Len(PageEvents(j)) % 3 = 2)
        /\ Len(PageEvents(j)) > 0 => DiscoveryEnded(j)

\* The extraction of the second discovered URL is in flight, after the first
\* URL's result was stored.
C15_Witness ==
    \E j \in StoredJobs :
        /\ pc[j] = "extract"
        /\ Len(PageEvents(j)) = 5
        /\ PageEvents(j)[3].ev = "store"
        /\ PageEvents(j)[5].ev = "extract"
        /\ PageEvents(j)[5].url = discovered[j][2]

\* The same-site links of the pages whose fetch returned are all in the
\* frontier or in visited.
LinksMerged(j) == SeenLinks(j) \subseteq (visited[j] \cup Range(toVisit[j]))

\* C16: a step that dispatches discovery fetches of a job starts from a state
\* where every fetch dispatched before has returned or failed, no callback of an
\* earlier wave is outstanding, and the links of the fetched pages have been
\* merged into the frontier.
C16_WaveBarrier ==
    [][\A j \in JobIds :
            Len(gotoLog'[j]) > Len(gotoLog[j]) =>
                /\ Range(gotoLog[j]) \subseteq settled[j]
                /\ promises[j] = <<>>
                /\ LinksMerged(j)]_vars

\* A wave after the first is in flight, and of the fetches of the waves before
\* it some returned and one failed.
C16_Witness ==
    \E j \in StoredJobs :
        /\ pc[j] = "wave"
        /\ currentDepth[j] >= 1
        /\ \E k \in 1..Len(promises[j]) : promises[j][k].state = "pending"
        /\ Cardinality(settled[j]) >= 2
        /\ linkSources[j] # {}
        /\ ~(settled[j] \subseteq linkSources[j])

\* C17 as stated: a run that has ended after its browser was launched has
\* closed the browser.
C17_EngineClosedOnExit ==
    \A j \in JobIds :
        (pc[j] \in {"done", "failed"} /\ browser[j] # "none") => browser[j] = "closed"

\* C18 as stated: no page of a job's browser is left open by a fetch that has
\* ended, in discovery or in extraction, so none is open when the job ends.
C18_PagesClosedAfterFetch ==
    \A j \in JobIds : openPages[j] = 0

\* The URLs whose discovery fetch failed.
FailedFetches(j) == settled[j] \ linkSources[j]

\* What holds of a job with a failed discovery fetch: the frontier, visited and
\* discovered hold nothing but baseUrl and links of pages whose fetch returned;
\* a failed callback handed back no link; the job is running while discovery
\* goes on; and a run that ended is completed, or is in error with the page
\* loop finished and the browser still open, which is what browser.close()
\* throwing leaves.
FailedFetchDropped(j) ==
    /\ (Range(toVisit[j]) \cup visited[j] \cup Range(discovered[j]))
            \subseteq ({crawlJobs[j].baseUrl} \cup SeenLinks(j))
    /\ \A k \in 1..Len(promises[j]) :
          (promises[j][k].state = "resolved" /\ currentBatch[j][k] \in FailedFetches(j))
              => promises[j][k].links = <<>>
    /\ pc[j] \in {"while", "wave"} => crawlJobs[j].status = "running"
    /\ pc[j] = "done" => crawlJobs[j].status = "completed"
    /\ pc[j] = "failed" =>
          /\ crawlJobs[j].status = "error"
          /\ idx[j] = Len(discovered[j])
          /\ browser[j] = "open"

\* C19 as stated: a run that had a failed discovery fetch and ended, ended
\* completed.
C19_FailedFetchEndsCompleted ==
    \A j \in StoredJobs :
        (FailedFetches(j) # {} /\ pc[j] \in {"done", "failed"})
            => crawlJobs[j].status = "completed"

\* C19 amended: a failed discovery fetch, of baseUrl or of any other URL,
\* contributes no links and does not fail the job; discovery is left only when
\* the frontier is empty or maxDepth waves have run; and the run ends completed
\* unless browser.close() throws after the page loop, and then it ends error.
C19_FailedFetchIsDropped ==
    /\ [](\A j \in StoredJobs : FailedFetches(j) # {} => FailedFetchDropped(j))
    /\ [][\A j \in StoredJobs :
            (FailedFetches(j) # {} /\ pc[j] = "while" /\ pc'[j] \notin {"while", "wave"})
                => (toVisit[j] = <<>> \/ currentDepth[j] >= crawlJobs[j].maxDepth)]_vars

\* A run that ended completed with URLs discovered, in which a discovery fetch
\* failed and a fetch dispatched after it returned its links.
C19_Witness ==
    \E j \in StoredJobs :
        /\ pc[j] = "done"
        /\ crawlJobs[j].status = "completed"
        /\ discovered[j] # <<>>
        /\ \E a, b \in 1..Len(gotoLog[j]) :
              /\ a < b
              /\ gotoLog[j][a] \in FailedFetches(j)
              /\ gotoLog[j][b] \in linkSources[j]

\* C20 as stated: every stored job has maxDepth in [1,10], requestDelay in
\* [100,5000], maxConcurrent in [1,5] and at least one pattern, none of them
\* empty: a submission outside these bounds stores no job, so that no run is
\* started for it.
C20_OutOfBoundsRejected ==
    \A j \in StoredJobs :
        /\ crawlJobSchema(crawlJobs[j])
        /\ \A k \in 1..Len(crawlJobs[j].regexPatterns) : crawlJobs[j].regexPatterns[k] # <<>>

\* C21 as stated: sanitizeFileName("My Article! #1") returns "my_article__1",
\* with two underscores before the 1.
C21_MyArticleTwoUnderscores ==
    (name = MyArticle /\ Len(fileName) >= 1) =>
        fileName[1] = <<"m", "y", "_", "a", "r", "t", "i", "c", "l", "e", "_", "_", "1">>

\* C21 amended: sanitizeFileName("My Article! #1") returns "my_article___1":
\* the three code units "! #" between "Article" and "1" give three underscores.
C21_MyArticle ==
    (name = MyArticle /\ Len(fileName) >= 1) =>
        fileName[1] = <<"m", "y", "_", "a", "r", "t", "i", "c", "l", "e", "_", "_", "_", "1">>

\* sanitizeFileName("My Article! #1") has returned.
C21_Witness == name = MyArticle /\ Len(fileName) >= 1

\* The code units of an ASCII letter or digit.
Alphanumerics == Range(Lowercase) \cup Range(Uppercase) \cup Digits

\* C22: for every name, sanitizeFileName returns the first 50 code units of the
\* name with each one outside [a-zA-Z0-9] replaced by "_" and the letters in
\* lowercase; what it returns has length min(50, length of the name) and holds
\* only [a-z0-9_]; and sanitizeFileName of what it returned returns the same.
C22_SanitizeRule ==
    Len(fileName) >= 1 =>
        LET n == IF Len(name) < FileNameLimit THEN Len(name) ELSE FileNameLimit
        IN /\ fileName[1] =
                [k \in 1..n |-> IF name[k] \in Alphanumerics
                                THEN toLowerCase(name[k]) ELSE "_"]
           /\ Len(fileName[1]) = n
           /\ Range(fileName[1]) \subseteq (Range(Lowercase) \cup Digits \cup {"_"})
           /\ Len(fileName) >= 2 => fileName[2] = fileName[1]

\* sanitizeFileName was called twice on a name longer than the limit that holds
\* an uppercase letter and a code unit outside [a-zA-Z0-9].
C22_Witness ==
    /\ Len(fileName) = 2
    /\ Len(name) > FileNameLimit
    /\ "Z" \in Range(name)
    /\ Range(name) \cap {"!", " ", "É"} # {}

\* The entries of the archive whose name carries the index of position i of
\* the result list.
EntriesAt(i) ==
    {k \in 1..Len(archive.entries) : archive.entries[k].name[1] = ToString(i)}

\* C23 as stated: an archive served for a job, read while the job's results are
\* those the download found, holds exactly one entry, named .md, for each
\* result of the job with status success and none for a result with status
\* error.
C23_ArchiveHoldsEverySuccess ==
    (archive.status = 200 /\ archive.found = Cardinality(getCrawlResults(archive.jobId))) =>
        LET results == ResultsNewestFirst(archive.jobId, Len(crawlResults))
        IN /\ \A i \in 1..Len(results) :
                 Cardinality(EntriesAt(i)) = (IF results[i].status = "success" THEN 1 ELSE 0)
           /\ \A k \in 1..Len(archive.entries) :
                 LET n == archive.entries[k].name
                 IN SubSeq(n, Len(n) - 2, Len(n)) = <<".", "m", "d">>

\* The store data changed in the step: a store call that wrote.
StoreChanged ==
    <<crawlJobs, crawlResults, currentJobId, currentResultId>>'
        # <<crawlJobs, crawlResults, currentJobId, currentResultId>>

\* C24: when a store call changed a job, a result or a counter and its write
\* did not fail, the file holds, whole, the jobs, results and id counters the
\* memory holds as the call returns.
C24_WriteThrough ==
    [][(StoreChanged /\ diskFaults' = diskFaults) =>
            /\ ~persisted'.torn
            /\ persisted'.crawlJobs = crawlJobs'
            /\ persisted'.crawlResults = crawlResults'
            /\ persisted'.currentJobId = currentJobId'
            /\ persisted'.currentResultId = currentResultId']_vars

\* A write failed, a later one went through after a result was stored and
\* counted, and the file matches the memory again.
C24_Witness ==
    /\ diskFaults < MaxDiskFaults
    /\ Len(crawlResults) >= 1
    /\ \E j \in StoredJobs : crawlJobs[j].processedPages >= 1
    /\ ~persisted.torn
    /\ persisted.crawlJobs = crawlJobs
    /\ persisted.crawlResults = crawlResults

\* The write of the step failed.
WriteFailed == diskFaults' < diskFaults

\* What the store call of job j's step leaves in memory, by the position the
\* job was at.
MemoryKeepsNewValue(j) ==
    /\ pc[j] = "none" =>
            /\ Len(crawlJobs') = Len(crawlJobs) + 1
            /\ currentJobId' = currentJobId + 1
            /\ crawlJobs'[j].id = j
            /\ crawlJobs'[j].status = "pending"
    /\ pc[j] = "start" => crawlJobs'[j].status = "running"
    /\ pc[j] = "while" => crawlJobs'[j].totalPages = Len(discovered'[j])
    /\ pc[j] = "extract" =>
            /\ Len(crawlResults') = Len(crawlResults) + 1
            /\ currentResultId' = currentResultId + 1
            /\ crawlResults'[Len(crawlResults')].jobId = j
            /\ crawlResults'[Len(crawlResults')].url = discovered[j][idx[j] + 1]
    /\ pc[j] = "progress" =>
            crawlJobs'[j].processedPages = crawlJobs[j].processedPages + 1
    /\ pc'[j] = "done" => crawlJobs'[j].status = "completed"
    /\ pc'[j] = "failed" => crawlJobs'[j].status = "error"

\* C25: in a step whose write fails, the store call returns and the job moves
\* to its next position, to the catch block only if the step's own operation
\* (launch, discovery, close) failed; the memory holds the new job or result;
\* the rest of the memory is as it was.
C25_FailedWriteNotRolledBack ==
    [][WriteFailed =>
            \E j \in JobIds :
                /\ pc'[j] # pc[j]
                /\ \A i \in JobIds \ {j} : pc'[i] = pc[i]
                /\ pc'[j] = "failed" => pc[j] \in {"launch", "discoverUrls", "close"}
                /\ MemoryKeepsNewValue(j)
                /\ \A i \in (1..Len(crawlJobs)) \ {j} : crawlJobs'[i] = crawlJobs[i]
                /\ \A r \in 1..Len(crawlResults) : crawlResults'[r] = crawlResults[r]]_vars

\* A job ended completed with a result stored although the write of its last
\* update failed: the file still has it running.
C25_Witness ==
    \E j \in StoredJobs :
        /\ pc[j] = "done"
        /\ crawlJobs[j].status = "completed"
        /\ crawlJobs[j].processedPages >= 1
        /\ diskFaults < MaxDiskFaults
        /\ persisted.crawlJobs # crawlJobs
        /\ Len(persisted.crawlJobs) >= j
        /\ persisted.crawlJobs[j].status = "running"

\* C26: no step removes a stored result or changes one of its fields; results
\* are only added after the ones there.
C26_ResultsAppendOnly ==
    [][/\ Len(crawlResults') >= Len(crawlResults)
       /\ \A r \in 1..Len(crawlResults) : crawlResults'[r] = crawlResults[r]]_vars

\* A job ended with two results or more, a success and an error among them: the
\* first ones went through the later creations and job updates.
C26_Witness ==
    \E j \in StoredJobs :
        /\ pc[j] \in {"done", "failed"}
        /\ Cardinality(getCrawlResults(j)) >= 2
        /\ \E r, q \in getCrawlResults(j) :
              /\ r < q
              /\ crawlResults[r].status = "success"
              /\ crawlResults[q].status = "error"

\* C27: under FairSpec (every launch, fetch, delay and close returns or fails) a
\* job whose run was started reaches status completed or error.
C27_StartedJobEnds ==
    \A j \in JobIds :
        (pc[j] = "start") ~>
            (j \in StoredJobs /\ crawlJobs[j].status \in {"completed", "error"})

\* A job that ended completed after two waves of discovery and the delays and
\* extractions of two pages.
C27_Witness ==
    \E j \in StoredJobs :
        /\ crawlJobs[j].status = "completed"
        /\ currentDepth[j] >= 2
        /\ crawlJobs[j].processedPages >= 2
        /\ crawlJobs[j].requestDelay > 0

\* C28: the response to a submission is sent before the run's first update, so
\* a job that left pending has its response; the response reports the job with
\* status pending, totalPages 0 and processedPages 0; and once sent it never
\* changes, whatever the run writes to the store afterwards.
C28_ResponseBeforeCrawl ==
    /\ [](\A j \in JobIds :
            /\ (pc[j] \notin {"none", "created"}) => Len(response[j]) = 1
            /\ (j \in StoredJobs /\ crawlJobs[j].status # "pending") => Len(response[j]) = 1
            /\ Len(response[j]) = 1 =>
                  /\ response[j][1].id = j
                  /\ response[j][1].status = "pending"
                  /\ response[j][1].totalPages = 0
                  /\ response[j][1].processedPages = 0)
    /\ [][\A j \in JobIds : response[j] # <<>> => response'[j] = response[j]]_vars

\* The store shows a job completed with pages processed, and the response to
\* its submission shows it pending with none.
C28_Witness ==
    \E j \in StoredJobs :
        /\ crawlJobs[j].status = "completed"
        /\ crawlJobs[j].totalPages >= 1
        /\ crawlJobs[j].processedPages >= 1
        /\ Len(response[j]) = 1
        /\ response[j][1].status = "pending"
        /\ response[j][1].processedPages = 0

\* The first code units of u are those of p.
HasPrefix(u, p) == Len(u) >= Len(p) /\ \A i \in 1..Len(p) : u[i] = p[i]

\* The URLs discovery of job j holds: frontier, batch, links returned, visited
\* and discovered.
HeldUrls(j) ==
    Range(toVisit[j]) \cup Range(currentBatch[j]) \cup visited[j]
        \cup Range(discovered[j])
        \cup UNION {Range(promises[j][k].links) :
                        k \in {i \in 1..Len(promises[j]) : promises[j][i].state = "resolved"}}

\* C29: every URL in the frontier, the visited set or the discovered set of a
\* job, at any time, starts with the job's baseUrl.
C29_HeldUrlsStartWithBaseUrl ==
    \A j \in StoredJobs : \A u \in HeldUrls(j) : HasPrefix(u, crawlJobs[j].baseUrl)

\* Discovery ended after fetching a page with a link that does not start with
\* baseUrl, with two pages visited and a URL discovered.
C29_Witness ==
    \E j \in StoredJobs :
        /\ DiscoveryEnded(j)
        /\ Cardinality(visited[j]) >= 2
        /\ Len(discovered[j]) >= 1
        /\ \E p \in linkSources[j] : \E l \in Range(PageLinks(p)) :
              ~HasPrefix(l, crawlJobs[j].baseUrl)

\* No value occurs at two positions of s.
NoDuplicates(s) == \A a, b \in 1..Len(s) : s[a] = s[b] => a = b

\* C30 as stated: the links a fetched page returns hold each URL at most once,
\* and the frontier after the first wave, which only the seed page filled,
\* holds each URL at most once.
C30_LinksOfAPageUnique ==
    \A j \in StoredJobs :
        /\ \A k \in 1..Len(promises[j]) :
              promises[j][k].state = "resolved" => NoDuplicates(promises[j][k].links)
        /\ (pc[j] = "while" /\ currentDepth[j] = 1) => NoDuplicates(toVisit[j])

\* The result of job j created k-th: the one with k results of the job up to it.
KthResult(j, k) ==
    {r \in getCrawlResults(j) :
        Cardinality({q \in getCrawlResults(j) : q <= r}) = k}

\* C31: the k-th result created for a job is for the URL at index k-1 of its
\* discovered list, and a step that sets processedPages to k > 0 finds the k-th
\* result stored.
C31_ResultsInListOrder ==
    /\ [](\A j \in StoredJobs : \A k \in 1..Cardinality(getCrawlResults(j)) :
            /\ k <= Len(discovered[j])
            /\ \A r \in KthResult(j, k) : crawlResults[r].url = discovered[j][k])
    /\ [][\A j \in StoredJobs :
            (crawlJobs'[j].processedPages # crawlJobs[j].processedPages
                /\ crawlJobs'[j].processedPages > 0) =>
                    /\ KthResult(j, crawlJobs'[j].processedPages) # {}
                    /\ crawlJobs'[j].processedPages = Cardinality(getCrawlResults(j))]_vars

\* Three results were stored for a job whose discovered list has three distinct
\* URLs, and the counter stands at three.
C31_Witness ==
    \E j \in StoredJobs :
        /\ Len(discovered[j]) >= 3
        /\ Cardinality(getCrawlResults(j)) = 3
        /\ crawlJobs[j].processedPages = 3
        /\ discovered[j][1] # discovered[j][3]

\* C33: processedPages of a job is at most the number of results stored for
\* the job, and while the job has status running the number of results is the
\* counter or the counter plus one.
C33_ProcessedAtMostStored ==
    \A j \in StoredJobs :
        /\ crawlJobs[j].processedPages <= Cardinality(getCrawlResults(j))
        /\ crawlJobs[j].status = "running" =>
              Cardinality(getCrawlResults(j)) - crawlJobs[j].processedPages \in {0, 1}

\* A running job between the store of its second result and the update of its
\* counter, which still stands at one.
C33_Witness ==
    \E j \in StoredJobs :
        /\ crawlJobs[j].status = "running"
        /\ pc[j] = "progress"
        /\ Cardinality(getCrawlResults(j)) = 2
        /\ crawlJobs[j].processedPages = 1

\* The positions of the document whose element matches selector s.
MatchesOf(s) == {i \in 1..Len(document) : document[i] = s}

\* The selectors, by their rank in the list, that some element matches.
MatchedRanks == {k \in 1..Len(ContentSelectors) : MatchesOf(ContentSelectors[k]) # {}}

\* C32 as stated: the element selected matches the highest-priority selector,
\* in the order of the list, that any element of the page matches; the body is
\* selected only when no element matches any.
C32_HighestPrioritySelected ==
    Len(mainContent) = 1 =>
        IF MatchedRanks = {}
        THEN mainContent[1] = 0
        ELSE mainContent[1] \in
                MatchesOf(ContentSelectors[CHOOSE k \in MatchedRanks :
                                                \A m \in MatchedRanks : k <= m])

\* C34: the pages discovery of a job has navigated to number at most maxDepth
\* times maxConcurrent, and at most maxConcurrent for each loop iteration
\* started.
C34_FetchesAtMostDepthTimesConcurrent ==
    \A j \in StoredJobs :
        /\ Len(gotoLog[j]) <= crawlJobs[j].maxDepth * crawlJobs[j].maxConcurrent
        /\ Len(gotoLog[j]) <= WavesStarted(j) * crawlJobs[j].maxConcurrent

\* Discovery ended by maxDepth with the frontier not empty after navigating to
\* maxDepth times maxConcurrent pages, in two iterations or more.
C34_Witness ==
    \E j \in StoredJobs :
        /\ DiscoveryEnded(j)
        /\ crawlJobs[j].maxDepth >= 2
        /\ Len(toVisit[j]) > 0
        /\ Len(gotoLog[j]) = crawlJobs[j].maxDepth * crawlJobs[j].maxConcurrent

\* The URLs at the end of a chain of at most n links from baseUrl, each link
\* starting with baseUrl and found on a page discovery fetched and read.
RECURSIVE WithinLinks(_, _)
WithinLinks(j, n) ==
    IF n = 0 THEN {crawlJobs[j].baseUrl}
    ELSE LET near == WithinLinks(j, n - 1)
         IN near \cup {l \in UNION {Range(PageLinks(p)) : p \in near \cap linkSources[j]} :
                           HasPrefix(l, crawlJobs[j].baseUrl)}

\* C35: every URL in the discovered set of a job ends a chain of at most
\* maxDepth same-site links from baseUrl through pages that discovery fetched
\* successfully.
C35_DiscoveredWithinMaxDepth ==
    \A j \in StoredJobs :
        crawlJobs[j].maxDepth >= 0 =>
            Range(discovered[j]) \subseteq WithinLinks(j, crawlJobs[j].maxDepth)

\* A URL was discovered that no chain shorter than maxDepth >= 2 reaches.
C35_Witness ==
    \E j \in StoredJobs :
        /\ crawlJobs[j].maxDepth >= 2
        /\ DiscoveryEnded(j)
        /\ \E u \in Range(discovered[j]) : u \notin WithinLinks(j, crawlJobs[j].maxDepth - 1)

\* The stored jobs with a pattern rule that is not a regular expression: an
\* opening parenthesis that is never closed.
BadPatternJobs ==
    {j \in StoredJobs :
        \E k \in 1..Len(crawlJobs[j].regexPatterns) : "(" \in Range(crawlJobs[j].regexPatterns[k])}

\* C36: a job with a pattern rule that does not compile never fetches a page,
\* never has a result, keeps totalPages 0 and processedPages 0, is never
\* completed, and once started reaches status error.
C36_BadPatternEndsError ==
    /\ [](\A j \in BadPatternJobs :
            /\ gotoLog[j] = <<>>
            /\ events[j] = <<>>
            /\ getCrawlResults(j) = {}
            /\ crawlJobs[j].totalPages = 0
            /\ crawlJobs[j].processedPages = 0
            /\ crawlJobs[j].status # "completed"
            /\ pc[j] = "failed" => crawlJobs[j].status = "error")
    /\ \A j \in JobIds :
          (j \in BadPatternJobs /\ pc[j] = "start") ~>
              (j \in BadPatternJobs /\ crawlJobs[j].status = "error")

\* The engine was launched for a job with a pattern that does not compile, and
\* the job ended error from discovery.
C36_Witness ==
    \E j \in BadPatternJobs :
        /\ pc[j] = "failed"
        /\ browser[j] = "open"
        /\ crawlJobs[j].status = "error"

\* The jobs the store holds before and after the step.
KeptJobs == (1..Len(crawlJobs)) \cap (1..Len(crawlJobs'))

\* The fields of job i that the step changes.
ChangedFields(i) == {f \in DOMAIN crawlJobs[i] : crawlJobs'[i][f] # crawlJobs[i][f]}

\* The step adds to the results of job i, or changes one of them.
ResultsChanged(i) ==
    \/ {r \in 1..Len(crawlResults') : crawlResults'[r].jobId = i}
            # {r \in 1..Len(crawlResults) : crawlResults[r].jobId = i}
    \/ \E r \in 1..Len(crawlResults) :
            crawlResults[r].jobId = i /\ crawlResults'[r] # crawlResults[r]

\* C37: with jobs running side by side, a step changes the job record or the
\* results of the one job whose run takes the step and of no other; and an
\* update changes the fields it names alone (status; totalPages;
\* processedPages; or status error with processedPages 0), so every other field,
\* whoever wrote it last, keeps its value.
C37_JobsDoNotInterfere ==
    [][\A i \in KeptJobs :
          /\ (ChangedFields(i) # {} \/ ResultsChanged(i)) =>
                /\ pc'[i] # pc[i]
                /\ \A k \in KeptJobs \ {i} : ChangedFields(k) = {} /\ ~ResultsChanged(k)
          /\ \/ ChangedFields(i) \subseteq {"status"}
             \/ ChangedFields(i) \subseteq {"totalPages"}
             \/ ChangedFields(i) \subseteq {"processedPages"}
             \/ /\ ChangedFields(i) \subseteq {"status", "processedPages"}
                /\ crawlJobs'[i].status = "error"
                /\ crawlJobs'[i].processedPages = 0]_vars

\* Two jobs are running with their results stored in turn: one of the first,
\* one of the second, one of the first again, and the counters of both stand.
C37_Witness ==
    /\ Len(crawlJobs) >= 2
    /\ Len(crawlResults) >= 3
    /\ crawlResults[1].jobId = 1
    /\ crawlResults[2].jobId = 2
    /\ crawlResults[3].jobId = 1
    /\ crawlJobs[1].status = "running"
    /\ crawlJobs[2].status = "running"
    /\ crawlJobs[1].totalPages = 2
    /\ crawlJobs[1].processedPages = 2
    /\ crawlJobs[2].processedPages = 1

\* s is strictly increasing.
Increasing(s) == \A a, b \in 1..Len(s) : a < b => s[a] < s[b]

\* C38: the job ids the store handed out, in the order it handed them out, are
\* strictly increasing, and so are the result ids; hence pairwise distinct.
\* This holds with jobs running side by side and over a restart that loads
\* what the last store call saved.
C38_IdsIncreasing ==
    /\ Increasing(issued.jobs)
    /\ Increasing(issued.results)

\* After a restart with a job and a result in the file, a second job was
\* submitted and a result was stored for it.
C38_Witness ==
    /\ restarts >= 1
    /\ Len(issued.jobs) >= 2
    /\ Len(issued.results) >= 2
    /\ \E j \in StoredJobs :
          /\ pc[j] = "progress"
          /\ issued.jobs[Len(issued.jobs)] = j
          /\ crawlResults[Len(crawlResults)].jobId = j
          /\ issued.results[Len(issued.results)] = Len(crawlResults)
====
